---- MODULE Spec2Model ----
(***************************************************************************)
(* The 'Create Segment' list-view action of crm_override                   *)
(* (crm_override/public/js/lead_list.js).                                  *)
(*                                                                         *)
(* One invocation of the action is one click on the menu item.  It reads   *)
(* the checked rows of the list view, either aborts with a notice or opens *)
(* a prompt; the prompt's submit handler issues one frappe.call; the       *)
(* call's callback shows a confirmation and refreshes the list.  Each      *)
(* invocation is a closure of its own: `selected` is a const of the click  *)
(* handler, `values` a parameter of the submit handler.                    *)
(***************************************************************************)
EXTENDS Integers, Sequences, FiniteSets, TLC

VARIABLES
    data,      \* the list view's rows (Lead documents), in display order
    checked,   \* names of the rows whose checkbox is ticked
    nInv,      \* number of times the action was clicked so far
    inv,       \* per invocation: position and closure variables
    calls,     \* per invocation: number of frappe.call requests it issued
    ui         \* per invocation: what it showed to the user, in order

vars == <<data, checked, nInv, inv, calls, ui>>

----------------------------------------------------------------------------
(* Bounds and value universes *)

MaxInv == 2                       \* clicks on the action in one run

Invs == 1..MaxInv

Undefined == "<undefined>"        \* JavaScript's undefined, for string slots
Blank == ""                       \* an empty text input

LeadDocs ==
    { [name |-> "id1", lead_name |-> "Asha"],
      [name |-> "id2", lead_name |-> "Ravi"] }

SegNames == {"seg1", "seg2"}
Descriptions == {"Test Segment", Undefined}

UndefinedMessage == <<>>          \* r.message when the response carries none

----------------------------------------------------------------------------
(* Host framework: list view *)

RECURSIVE Filter(_, _)
Filter(s, keep) ==
    IF s = <<>> THEN <<>>
    ELSE IF Head(s).name \in keep
         THEN <<Head(s)>> \o Filter(Tail(s), keep)
         ELSE Filter(Tail(s), keep)

\* listview.get_checked_items(): the checked rows, in display order
GetCheckedItems == Filter(data, checked)

Names(docs) == [k \in DOMAIN docs |-> docs[k].name]

----------------------------------------------------------------------------
(* lead_list.js *)

\* line 5 with the guard never taken
EmptySelectionOff(selected) == FALSE
\* line 5: if (!selected.length)
EmptySelection(selected) == Len(selected) = 0

NoticeText == <<"Please select at least one lead.">>

\* lines 10-21 without reqd: 1
PromptFieldsNotReqd ==
    << [fieldname |-> "segmentname", fieldtype |-> "Data", reqd |-> 0],
       [fieldname |-> "description", fieldtype |-> "Small Text", reqd |-> 0] >>
\* lines 10-21: the two fields handed to frappe.prompt
PromptFields ==
    << [fieldname |-> "segmentname", fieldtype |-> "Data", reqd |-> 1],
       [fieldname |-> "description", fieldtype |-> "Small Text", reqd |-> 0] >>

\* The form layer: a field with reqd: 1 left empty keeps the dialog from
\* calling the submit handler.
MissingMandatory(values) ==
    \E k \in DOMAIN PromptFields :
        /\ PromptFields[k].reqd = 1
        /\ values[PromptFields[k].fieldname] \in {Blank, Undefined}

\* line 27 mapping to another field of the row
LeadNamesByTitle(selected) == [k \in DOMAIN selected |-> selected[k].lead_name]
\* line 27: selected.map(lead => lead.name)
LeadNames(selected) == [k \in DOMAIN selected |-> selected[k].name]

\* line 27 reading the list view again instead of the closure's const
SelectedNow(i) == GetCheckedItems
\* line 4 / line 27: the `selected` the submit handler closes over
SelectedOf(i) == inv[i].selected

\* lines 25-29: args of the remote call
CallArgs(values, selected) ==
    [ segmentname |-> values.segmentname,
      lead_names  |-> LeadNames(selected),
      description |-> values.description ]

\* property read on a JavaScript object: undefined when the key is absent
Get(obj, f) == IF f \in DOMAIN obj THEN obj[f] ELSE Undefined

\* __(template, [arg]): {0} is replaced by the argument; an undefined
\* argument leaves the placeholder in place (never a segment name)
SuccessTemplate == <<"Lead Segment ", "{0}", " created successfully">>
Format(t, arg) ==
    [k \in DOMAIN t |->
        IF t[k] = "{0}" /\ arg # Undefined THEN arg ELSE t[k]]

\* line 35: the confirmation text
SuccessText(r) == Format(SuccessTemplate, Get(r.message, "segmentname"))

\* line 31: if (!r.exc)
NoExc(r) == ~r.exc

Msgprint(i, title, indicator, message) ==
    [kind |-> "msgprint", inv |-> i, title |-> title,
     indicator |-> indicator, message |-> message]
Refresh(i) ==
    [kind |-> "refresh", inv |-> i, title |-> "", indicator |-> "",
     message |-> <<>>]

\* lines 32-38 with the refresh first
SuccessEventsSwapped(i, r) ==
    << Refresh(i), Msgprint(i, "Success", "green", SuccessText(r)) >>
\* lines 32-38: what the success branch shows, in order
SuccessEvents(i, r) ==
    << Msgprint(i, "Success", "green", SuccessText(r)), Refresh(i) >>

----------------------------------------------------------------------------
(* create_lead_segment (server side) *)

\* On success the method returns an object carrying the created segment's
\* name as `name`; whether the object also carries `segmentname` is open.
\* On failure the response has exc set and no message.
ServerResponses(args) ==
    { [exc |-> FALSE, message |-> [name |-> args.segmentname]],
      [exc |-> FALSE, message |-> [name |-> args.segmentname,
                                   segmentname |-> args.segmentname]],
      [exc |-> TRUE, message |-> UndefinedMessage] }

----------------------------------------------------------------------------
(* State *)

NoValues == [segmentname |-> Blank, description |-> Undefined]
NoArgs == [segmentname |-> Blank, lead_names |-> <<>>, description |-> Undefined]
NoResp == [exc |-> FALSE, message |-> UndefinedMessage]

IdleInv ==
    [ pc        |-> "idle",     \* idle, aborted, prompt, called, done, lost
      selected  |-> <<>>,       \* const selected (line 4)
      values    |-> NoValues,   \* values handed to the submit handler
      args      |-> NoArgs,     \* args of the request in flight
      resp      |-> NoResp,     \* r, once the callback has run
      rejected  |-> FALSE,      \* the open dialog has refused a submission
      atClick   |-> <<>>,       \* history: names checked when clicked
      wasEmpty  |-> FALSE,      \* history: nothing was checked when clicked
      stale     |-> FALSE,      \* history: the checks differed at submit
      submits   |-> 0,          \* history: submissions the dialog accepted
      callbacks |-> 0 ]         \* history: times the callback ran

\* Once the exchange is over nothing refers to the closure any more.
Release(rec) ==
    [rec EXCEPT !.selected = <<>>, !.values = NoValues, !.args = NoArgs,
                !.atClick = <<>>, !.stale = FALSE]

Orders ==
    { s \in [1..Cardinality(LeadDocs) -> LeadDocs] :
        \A a, b \in DOMAIN s : a # b => s[a] # s[b] }

Init ==
    /\ data \in Orders
    /\ checked = {}
    /\ nInv = 0
    /\ inv = [i \in Invs |-> IdleInv]
    /\ calls = [i \in Invs |-> 0]
    /\ ui = [i \in Invs |-> <<>>]

----------------------------------------------------------------------------
(* Actions *)

\* The user ticks or unticks a row.
ToggleCheck(l) ==
    /\ checked' = IF l \in checked THEN checked \ {l} ELSE checked \cup {l}
    /\ UNCHANGED <<data, nInv, inv, calls, ui>>

\* lines 3-22: the menu item is clicked
CreateSegment ==
    /\ nInv < MaxInv
    /\ LET i == nInv + 1
           selected == GetCheckedItems
           clicked == [inv[i] EXCEPT !.selected = selected,
                                     !.atClick = Names(GetCheckedItems),
                                     !.wasEmpty = (checked = {})]
       IN /\ nInv' = i
          /\ IF EmptySelection(selected)
             THEN /\ ui' = [ui EXCEPT ![i] =
                               Append(@, Msgprint(i, "", "", NoticeText))]
                  /\ inv' = [inv EXCEPT ![i] = [clicked EXCEPT !.pc = "aborted"]]
             ELSE /\ ui' = ui
                  /\ inv' = [inv EXCEPT ![i] = [clicked EXCEPT !.pc = "prompt"]]
    /\ UNCHANGED <<data, checked, calls>>

\* the prompt is submitted with a mandatory field empty: the dialog stays
\* open and the submit handler is not called
PromptReject(i, sn, d) ==
    /\ inv[i].pc = "prompt"
    /\ MissingMandatory([segmentname |-> sn, description |-> d])
    /\ inv' = [inv EXCEPT ![i].rejected = TRUE]
    /\ UNCHANGED <<data, checked, nInv, calls, ui>>

\* line 25 with one args object shared by every request in flight
IssueCallShared(i, args) ==
    [j \in Invs |->
        IF j = i \/ inv[j].pc = "called"
        THEN [inv[j] EXCEPT !.pc = "called", !.args = args]
        ELSE inv[j]]
\* line 23: frappe.call({... args ...}): the request leaves
IssueCall(i, args) ==
    [inv EXCEPT ![i].pc = "called", ![i].args = args]

\* lines 22-42: the dialog accepts the values, hides, and calls the submit
\* handler
PromptSubmit(i, sn, d) ==
    LET values == [segmentname |-> sn, description |-> d]
        args == CallArgs(values, SelectedOf(i))
    IN /\ inv[i].pc = "prompt"
       /\ ~MissingMandatory(values)
       /\ calls' = [calls EXCEPT ![i] = @ + 1]
       /\ inv' = [IssueCall(i, args) EXCEPT
                     ![i].values = values,
                     ![i].rejected = FALSE,
                     ![i].stale = (Names(GetCheckedItems) # inv[i].atClick),
                     ![i].submits = @ + 1]
       /\ UNCHANGED <<data, checked, nInv, ui>>

\* lines 30-40, with a second frappe.call on error
CallbackRetry(i, r) ==
    /\ inv[i].pc = "called"
    /\ r \in ServerResponses(inv[i].args)
    /\ ui' = IF NoExc(r) THEN [ui EXCEPT ![i] = @ \o SuccessEvents(i, r)]
                         ELSE ui
    /\ calls' = IF NoExc(r) THEN calls ELSE [calls EXCEPT ![i] = @ + 1]
    /\ inv' = [inv EXCEPT ![i] =
                  Release([@ EXCEPT !.pc = "done", !.resp = r,
                                    !.callbacks = @ + 1])]
    /\ UNCHANGED <<data, checked, nInv>>

\* lines 30-40, with listview.refresh() outside the if
CallbackRefreshAlways(i, r) ==
    /\ inv[i].pc = "called"
    /\ r \in ServerResponses(inv[i].args)
    /\ ui' = IF NoExc(r) THEN [ui EXCEPT ![i] = @ \o SuccessEvents(i, r)]
                         ELSE [ui EXCEPT ![i] = Append(@, Refresh(i))]
    /\ inv' = [inv EXCEPT ![i] =
                  Release([@ EXCEPT !.pc = "done", !.resp = r,
                                    !.callbacks = @ + 1])]
    /\ UNCHANGED <<data, checked, nInv, calls>>

\* lines 30-40: callback: function(r)
Callback(i, r) ==
    /\ inv[i].pc = "called"
    /\ r \in ServerResponses(inv[i].args)
    /\ ui' = IF NoExc(r) THEN [ui EXCEPT ![i] = @ \o SuccessEvents(i, r)]
                         ELSE ui
    /\ inv' = [inv EXCEPT ![i] =
                  Release([@ EXCEPT !.pc = "done", !.resp = r,
                                    !.callbacks = @ + 1])]
    /\ UNCHANGED <<data, checked, nInv, calls>>

\* the exchange ends without a response: the callback is never invoked
TransportFailure(i) ==
    /\ inv[i].pc = "called"
    /\ inv' = [inv EXCEPT ![i] = Release([@ EXCEPT !.pc = "lost"])]
    /\ UNCHANGED <<data, checked, nInv, calls, ui>>

Next ==
    \/ \E l \in {doc.name : doc \in LeadDocs} : ToggleCheck(l)
    \/ CreateSegment
    \/ \E i \in Invs, sn \in SegNames \cup {Blank}, d \in Descriptions :
          PromptReject(i, sn, d)
    \/ \E i \in Invs, sn \in SegNames \cup {Blank}, d \in Descriptions :
          PromptSubmit(i, sn, d)
    \/ \E i \in Invs :
          \E r \in ServerResponses(inv[i].args) : Callback(i, r)
    \/ \E i \in Invs : TransportFailure(i)

Spec == Init /\ [][Next]_vars

----------------------------------------------------------------------------
(* Properties *)

Started == 1..nInv

IsMsg(e) == e.kind = "msgprint"
IsRefresh(e) == e.kind = "refresh"
IsNotice(e) == IsMsg(e) /\ e.message = NoticeText
IsSuccessMsg(e) == IsMsg(e) /\ e.title = "Success" /\ e.indicator = "green"
Contains(message, word) == \E k \in DOMAIN message : message[k] = word

Succeeded(i) == inv[i].pc = "done" /\ ~inv[i].resp.exc
Failed(i) == inv[i].pc = "done" /\ inv[i].resp.exc

RECURSIVE Sum(_, _)
Sum(f, S) ==
    IF S = {} THEN 0
    ELSE LET x == CHOOSE y \in S : TRUE IN f[x] + Sum(f, S \ {x})

\* C1: an invocation that found no row checked never issues the remote call
\* and has shown the 'Please select at least one lead.' notice.
C1_EmptySelectionAborts ==
    \A i \in Started :
        inv[i].wasEmpty =>
            /\ inv[i].pc = "aborted"
            /\ calls[i] = 0
            /\ inv[i].submits = 0
            /\ \E k \in DOMAIN ui[i] : IsNotice(ui[i][k])

C1_Witness ==
    \E i \in Started :
        /\ inv[i].wasEmpty
        /\ inv[i].pc = "aborted"
        /\ \E j \in Started : j > i /\ inv[j].pc = "called"

\* C2: after a successful response whose object carries the created
\* segment's name as `name`, the confirmation shown includes that name.
C2_ConfirmationNamesSegment ==
    \A i \in Started :
        (Succeeded(i) /\ "name" \in DOMAIN inv[i].resp.message) =>
            \E k \in DOMAIN ui[i] :
                /\ IsSuccessMsg(ui[i][k])
                /\ Contains(ui[i][k].message, inv[i].resp.message.name)

\* C3: with id1 and id2 selected and "seg1" / "Test Segment" submitted the
\* remote call receives {segmentname: "seg1", lead_names: [id1, id2],
\* description: "Test Segment"}; on the response {name: "seg1"} the UI shows
\* "Lead Segment seg1 created successfully" and then reloads the list.
C3_EndToEnd ==
    \A i \in Started :
        /\ ( /\ inv[i].pc = "called"
             /\ inv[i].atClick = <<"id1", "id2">>
             /\ inv[i].values = [segmentname |-> "seg1",
                                 description |-> "Test Segment"] )
           => inv[i].args = [segmentname |-> "seg1",
                             lead_names |-> <<"id1", "id2">>,
                             description |-> "Test Segment"]
        /\ ( /\ inv[i].pc = "done"
             /\ inv[i].resp = [exc |-> FALSE, message |-> [name |-> "seg1"]] )
           => /\ Len(ui[i]) = 2
              /\ IsMsg(ui[i][1])
              /\ ui[i][1].message =
                    <<"Lead Segment ", "seg1", " created successfully">>
              /\ IsRefresh(ui[i][2])

\* C4: the lead_names of a remote call are the names of the selected rows:
\* non-empty, same length, same order as the list view shows them, nothing
\* added, dropped or merged.
C4_LeadNamesAreSelection ==
    \A i \in Started :
        inv[i].pc = "called" =>
            LET sel == inv[i].selected
                ln == inv[i].args.lead_names
            IN /\ Len(sel) > 0
               /\ Len(ln) = Len(sel)
               /\ \A k \in 1..Len(sel) : ln[k] = sel[k].name
               /\ sel = Filter(data, {sel[k].name : k \in 1..Len(sel)})

C4_Witness ==
    \E i \in Started :
        /\ inv[i].pc = "called"
        /\ Len(inv[i].args.lead_names) = 2
        /\ inv[i].args.lead_names = <<"id2", "id1">>

\* C5: the callback of a response with exc set shows nothing, does not
\* refresh the list, issues no further call and changes nothing else.
C5_ErrorChangesNothing ==
    [][\A i \in Invs :
          (inv[i].pc = "called" /\ inv'[i].pc = "done" /\ inv'[i].resp.exc) =>
              /\ ui' = ui
              /\ calls' = calls
              /\ checked' = checked
              /\ data' = data
              /\ nInv' = nInv
              /\ \A j \in Invs \ {i} : inv'[j] = inv[j]]_vars

C5_Witness ==
    \E i \in Started :
        /\ Failed(i)
        /\ ui[i] = <<>>
        /\ calls[i] = 1

\* C6: a submission with the segment name blank is refused by the dialog:
\* no call is issued for it, and every call in flight has a non-empty
\* segmentname.
C6_BlankNameRejected ==
    \A i \in Started :
        /\ inv[i].rejected => (inv[i].pc = "prompt" /\ calls[i] = 0)
        /\ inv[i].pc = "called" =>
              inv[i].args.segmentname \notin {Blank, Undefined}

C6_Witness ==
    \E i \in Started :
        /\ inv[i].rejected
        /\ inv[i].pc = "prompt"
        /\ calls[i] = 0

\* C7: a successful response is followed by a confirmation and then a list
\* refresh, in that order; the list is refreshed only after a successful
\* response.
C7_SuccessShowsThenRefreshes ==
    \A i \in Started :
        /\ Succeeded(i) =>
              /\ Len(ui[i]) = 2
              /\ IsSuccessMsg(ui[i][1])
              /\ IsRefresh(ui[i][2])
        /\ \A k \in DOMAIN ui[i] :
              IsRefresh(ui[i][k]) =>
                  /\ Succeeded(i)
                  /\ k > 1
                  /\ IsSuccessMsg(ui[i][k - 1])

C7_Witness ==
    \E i, j \in Started :
        /\ Succeeded(i)
        /\ IsRefresh(ui[i][2])
        /\ Failed(j)

\* C8: an accepted submission issues exactly one remote call, whose
\* callback runs at most once; calls never outnumber accepted submissions.
C8_OneCallPerSubmit ==
    /\ \A i \in Invs :
          /\ calls[i] = inv[i].submits
          /\ inv[i].callbacks <= calls[i]
          /\ inv[i].callbacks <= 1
    /\ Sum(calls, Invs) <= Sum([i \in Invs |-> inv[i].submits], Invs)

C8_Witness ==
    \E i, j \in Started :
        /\ Failed(i)
        /\ calls[i] = 1
        /\ inv[j].pc = "lost"
        /\ inv[j].callbacks = 0

\* C9: the remote call carries the names that were checked when the action
\* was clicked, also when the checks have changed before the submission.
C9_SelectionSnapshot ==
    \A i \in Started :
        inv[i].pc = "called" => inv[i].args.lead_names = inv[i].atClick

C9_Witness ==
    \E i \in Started :
        /\ inv[i].pc = "called"
        /\ inv[i].stale
        /\ inv[i].args.lead_names # Names(GetCheckedItems)

\* C10: success confirmations never outnumber successful responses, and
\* every call in flight keeps the lead_names and segmentname of its own
\* invocation.
C10_InvocationsIndependent ==
    /\ Cardinality({<<i, k>> \in Invs \X (1..2) :
                       k \in DOMAIN ui[i] /\ IsSuccessMsg(ui[i][k])})
          <= Cardinality({i \in Invs : Succeeded(i)})
    /\ \A i \in Started :
          inv[i].pc = "called" =>
              inv[i].args = CallArgs(inv[i].values, inv[i].selected)

C10_Witness ==
    \E i, j \in Started :
        /\ i < j
        /\ inv[i].pc = "called"
        /\ Succeeded(j)
        /\ inv[i].args.segmentname # inv[j].resp.message.name

====
